---- MODULE Spec2Model ----
(***************************************************************************)
(* Model of HPCSubmissionLauncher.launch of hydra_hpc_launcher             *)
(* (src/src/hydra_hpc_launcher/launcher/launcher.py) together with the     *)
(* config materializer handle_output_dir_and_save_configs                  *)
(* (src/launcher.py).                                                      *)
(*                                                                         *)
(* Python strings are sequences of one-character strings, so that the      *)
(* substring tests, splits and replacements of the code are computed       *)
(* character by character.                                                 *)
(***************************************************************************)
EXTENDS Integers, Sequences, FiniteSets, TLC

\* ------------------------------------------------------------------------
\* Bounds of the model
\* ------------------------------------------------------------------------

\* Largest number of override sequences in one batch.
MaxBatch == 2

\* Largest number of tokens of an override sequence (specification SpecBuild).
MaxLen == 2

\* Largest number of launch calls made on the same batch objects.
MaxCalls == 2

\* ------------------------------------------------------------------------
\* Python str operations
\* ------------------------------------------------------------------------

\* `sub in s`
Contains(s, sub) ==
    \E i \in 1..(Len(s) - Len(sub) + 1) : SubSeq(s, i, i + Len(sub) - 1) = sub

\* s.find(sub) as a 1-based index, 0 when absent
Find(s, sub) ==
    IF Contains(s, sub)
    THEN CHOOSE i \in 1..(Len(s) - Len(sub) + 1) :
            /\ SubSeq(s, i, i + Len(sub) - 1) = sub
            /\ \A j \in 1..(i - 1) : SubSeq(s, j, j + Len(sub) - 1) # sub
    ELSE 0

\* s.rfind(sub) as a 1-based index, 0 when absent
RFind(s, sub) ==
    IF Contains(s, sub)
    THEN CHOOSE i \in 1..(Len(s) - Len(sub) + 1) :
            /\ SubSeq(s, i, i + Len(sub) - 1) = sub
            /\ \A j \in (i + 1)..(Len(s) - Len(sub) + 1) :
                   SubSeq(s, j, j + Len(sub) - 1) # sub
    ELSE 0

\* s.split(sep, 1): one part when sep is absent, else the parts around the
\* first sep
SplitOnce(s, sep) ==
    LET i == Find(s, sep)
    IN  IF i = 0
        THEN << s >>
        ELSE << SubSeq(s, 1, i - 1), SubSeq(s, i + Len(sep), Len(s)) >>

\* s.replace(old, new): every non-overlapping occurrence, left to right
RECURSIVE Replace(_, _, _)
Replace(s, old, new) ==
    IF Len(s) < Len(old) \/ Len(old) = 0
    THEN s
    ELSE IF SubSeq(s, 1, Len(old)) = old
         THEN new \o Replace(SubSeq(s, Len(old) + 1, Len(s)), old, new)
         ELSE << Head(s) >> \o Replace(Tail(s), old, new)

\* sep.join(parts)
RECURSIVE Join(_, _)
Join(parts, sep) ==
    IF Len(parts) = 0
    THEN << >>
    ELSE IF Len(parts) = 1
         THEN parts[1]
         ELSE parts[1] \o sep \o Join(Tail(parts), sep)

\* list.pop(i) for a 1-based i: the list without its i-th element
Pop(list, i) ==
    SubSeq(list, 1, i - 1) \o SubSeq(list, i + 1, Len(list))

\* ------------------------------------------------------------------------
\* String literals of the launcher
\* ------------------------------------------------------------------------

BSLASH == << "\\" >>
DOLLAR == << "$" >>
EQ == << "=" >>
SPACE == << " " >>
DASHDASH == << "-", "-" >>

\* "+launch"
LAUNCH == << "+", "l", "a", "u", "n", "c", "h" >>

\* "+launch."
LAUNCH_DOT == LAUNCH \o << "." >>

\* "+launch/"
LAUNCH_SLASH == LAUNCH \o << "/" >>

\* "+launch.script="
LAUNCH_SCRIPT == LAUNCH_DOT \o << "s", "c", "r", "i", "p", "t", "=" >>

\* '\\"' in the f-strings: a backslash and a double quote
ESCQUOTE == << "\\", "\"" >>

\* "\\\\\\\\$" in the source: four backslashes and a dollar sign
ESCDOLLAR == << "\\", "\\", "\\", "\\", "$" >>

\* "Failed", the job id when stdout has no id
FAILED == << "F", "a", "i", "l", "e", "d" >>

\* "with ID ", the literal head of the pattern r"with ID (\d+)\."
WITH_ID == << "w", "i", "t", "h", " ", "I", "D", " " >>

Digits == { "0", "1", "2", "3", "4", "5", "6", "7", "8", "9" }

\* ------------------------------------------------------------------------
\* pathlib.Path operations used on the job script.  A path is its string;
\* the paths of the model are absolute, normalised and free of symbolic
\* links, so Path.resolve() leaves them as they are.
\* ------------------------------------------------------------------------

SLASH == << "/" >>
DOT == << "." >>

\* Path.name: the last component
PathName(p) ==
    LET i == RFind(p, SLASH)
    IN  SubSeq(p, i + 1, Len(p))

\* Path.suffix: the name from its last dot, when that dot is neither the
\* first nor the last character of the name
PathSuffix(p) ==
    LET name == PathName(p)
        i == RFind(name, DOT)
    IN  IF 1 < i /\ i < Len(name)
        THEN SubSeq(name, i, Len(name))
        ELSE << >>

\* Path.parent
PathParent(p) ==
    LET i == RFind(p, SLASH)
    IN  IF i <= 1 THEN SubSeq(p, 1, i) ELSE SubSeq(p, 1, i - 1)

BIN == << "b", "i", "n" >>

\* ------------------------------------------------------------------------
\* The launcher object: the settings of __init__ and the task function of
\* setup
\* ------------------------------------------------------------------------

\* self.queue .. self.package_manager, at their defaults
LaunchSettings ==
    [ queue |-> "DSML",
      ncpus |-> 2,
      memory |-> 16,
      ngpus |-> 1,
      walltime |-> "-1:00:00",
      template |-> "RTX6000",
      package_manager |-> << "u", "v" >> ]

\* HPCQueue.DEFAULT, the queue that is left out of the command
QUEUE_DEFAULT == ""

\* self.task_function: a functools.partial of train_model (it has .func)
task_function ==
    [ has_func |-> TRUE, func_name |-> "train_model", name |-> "partial" ]

\* ------------------------------------------------------------------------
\* Command builder (launch, lines 86-172)
\* ------------------------------------------------------------------------

\* The job name with the batch offset dropped: a mutation of JobName.
JobNameNoOffset(initial, i) ==
    << task_function.func_name, i >>

\* job_name: f"{task_function.func.__name__}_{initial_job_idx + idx}", with
\* the fallback to task_function.__name__.  The pair <<name, n>> stands for
\* the string name_n.
JobName(initial, i) ==
    IF task_function.has_func
    THEN << task_function.func_name, initial + i >>
    ELSE << task_function.name, initial + i >>

\* any("+launch.script=" in arg for arg in job_override)
HasScriptOverride(job_override) ==
    \E i \in 1..Len(job_override) : Contains(job_override[i], LAUNCH_SCRIPT)

\* The position of next(arg for arg in job_override if "+launch.script=" in
\* arg); job_override.index(arg) is the same position, as an earlier equal
\* token would hold the substring too.
ScriptOverrideIndex(job_override) ==
    CHOOSE i \in 1..Len(job_override) :
        /\ Contains(job_override[i], LAUNCH_SCRIPT)
        /\ \A j \in 1..(i - 1) : ~Contains(job_override[j], LAUNCH_SCRIPT)

\* The script before packaging: sys.argv[0], or the value of the first
\* script override
SelectScript(entry, job_override) ==
    IF HasScriptOverride(job_override)
    THEN SplitOnce(job_override[ScriptOverrideIndex(job_override)], EQ)[2]
    ELSE entry

\* job_override.pop(job_override.index(...)): the request object after the
\* script selection
ConsumeScriptOverride(job_override) ==
    IF HasScriptOverride(job_override)
    THEN Pop(job_override, ScriptOverrideIndex(job_override))
    ELSE job_override

\* The packaging rewrite: a script without suffix in a directory named bin
\* is invoked as <package manager>:<name>
PackageScript(job_script) ==
    IF PathSuffix(job_script) = << >> /\ PathName(PathParent(job_script)) = BIN
    THEN LaunchSettings.package_manager \o << ":" >> \o PathName(job_script)
    ELSE job_script

\* The escaping of an override value without the closing brace: a mutation
\* of EscapeValue.
EscapeValueNoCloseBrace(value) ==
    LET v0 == Replace(value, BSLASH, << >>)
        v1 == Replace(v0, << "(" >>, << "\\", "(" >>)
        v2 == Replace(v1, << ")" >>, << "\\", ")" >>)
        v3 == Replace(v2, << "{" >>, << "\\", "{" >>)
    IN  Replace(v3, DOLLAR, ESCDOLLAR)

\* Lines 124-135: strip the backslashes, then escape ( ) { } and $
EscapeValue(value) ==
    LET v0 == Replace(value, BSLASH, << >>)
        v1 == Replace(v0, << "(" >>, << "\\", "(" >>)
        v2 == Replace(v1, << ")" >>, << "\\", ")" >>)
        v3 == Replace(v2, << "{" >>, << "\\", "{" >>)
        v4 == Replace(v3, << "}" >>, << "\\", "}" >>)
    IN  Replace(v4, DOLLAR, ESCDOLLAR)

\* The test of lines 115-119: the token goes through unchanged
PassesUnchanged(override) ==
    /\ ~Contains(override, BSLASH)
    /\ ~Contains(override, DOLLAR)
    /\ ~Contains(override, LAUNCH)

\* The body of the loop of lines 114-147 for one token: where the token goes
\* ("task": overrides_list, "launch": launch_command_overrides, "error":
\* override.split("=", 1) has one part and the unpacking raises ValueError)
\* and the token that is appended
SanitizeOverride(override) ==
    IF PassesUnchanged(override)
    THEN [ route |-> "task", out |-> override ]
    ELSE IF Len(SplitOnce(override, EQ)) # 2
    THEN [ route |-> "error", out |-> << >> ]
    ELSE LET override_key == SplitOnce(override, EQ)[1]
             override_value == EscapeValue(SplitOnce(override, EQ)[2])
         IN  IF Contains(override_key, LAUNCH)
             THEN [ route |-> "launch",
                    out |-> Replace(Replace(override_key, LAUNCH_DOT, << >>),
                                    LAUNCH_SLASH, << >>)
                            \o EQ \o ESCQUOTE \o override_value \o ESCQUOTE ]
             ELSE [ route |-> "task",
                    out |-> override_key \o EQ \o ESCQUOTE \o override_value
                            \o ESCQUOTE ]

\* The tokens of job_override that SanitizeOverride sends to `route`, in order
RECURSIVE Routed(_, _)
Routed(job_override, route) ==
    IF Len(job_override) = 0
    THEN << >>
    ELSE LET r == SanitizeOverride(Head(job_override))
         IN  (IF r.route = route THEN << r.out >> ELSE << >>)
             \o Routed(Tail(job_override), route)

\* Whether the loop of lines 114-147 raises ValueError on job_override
SanitizeRaises(job_override) ==
    \E i \in 1..Len(job_override) :
        SanitizeOverride(job_override[i]).route = "error"

\* Lines 112-151: overrides_list at the end, and launch_command_overrides
Sanitize(job_override) ==
    LET overrides_list == Routed(job_override, "task")
        launch_command_overrides == Routed(job_override, "launch")
    IN  [ launch_command_overrides |-> launch_command_overrides,
          overrides_list |->
              IF Len(launch_command_overrides) > 0
              THEN overrides_list \o << DASHDASH >> \o launch_command_overrides
              ELSE overrides_list ]

\* Lines 153-172: the scheduler command.  flags is launch_command_list
\* without the values; the values are the other fields.
LaunchCommand(job_name, job_script, overrides_list) ==
    [ flags |->
          << "hpc", "run", "--job_name", "--job_script", "--job_script_args",
             "--template", "--ncpus", "--memory", "--ngpus", "--walltime=" >>
          \o (IF LaunchSettings.queue # QUEUE_DEFAULT
              THEN << "--queue" >> ELSE << >>),
      job_name |-> job_name,
      job_script |-> job_script,
      job_script_args |-> Join(overrides_list, SPACE),
      template |-> LaunchSettings.template,
      ncpus |-> LaunchSettings.ncpus,
      memory |-> LaunchSettings.memory,
      ngpus |-> LaunchSettings.ngpus,
      walltime |-> LaunchSettings.walltime,
      queue |-> LaunchSettings.queue ]

\* ------------------------------------------------------------------------
\* Response parser (launch, lines 189-190)
\* ------------------------------------------------------------------------

\* The end of the longest run of digits of s that starts at position i
\* (i - 1 when s[i] is no digit): what the greedy \d+ consumes
RECURSIVE DigitsEnd(_, _)
DigitsEnd(s, i) ==
    IF i <= Len(s) /\ s[i] \in Digits THEN DigitsEnd(s, i + 1) ELSE i - 1

\* Whether r"with ID (\d+)\." matches s at position i.  \d+ is greedy and a
\* shorter run would be followed by a digit, so the match takes the whole
\* run of digits and needs the dot right after it.
MatchesAt(s, i) ==
    LET d == i + Len(WITH_ID)
        e == DigitsEnd(s, d)
    IN  /\ i + Len(WITH_ID) - 1 <= Len(s)
        /\ SubSeq(s, i, i + Len(WITH_ID) - 1) = WITH_ID
        /\ e >= d
        /\ e + 1 <= Len(s)
        /\ s[e + 1] = "."

\* match.group(1) for a match at position i
GroupAt(s, i) ==
    SubSeq(s, i + Len(WITH_ID), DigitsEnd(s, i + Len(WITH_ID)))

\* The job id of the last match: a mutation of JobId.
JobIdLastMatch(s) ==
    IF \E i \in 1..Len(s) : MatchesAt(s, i)
    THEN GroupAt(s, CHOOSE i \in 1..Len(s) :
                        /\ MatchesAt(s, i)
                        /\ \A j \in (i + 1)..Len(s) : ~MatchesAt(s, j))
    ELSE FAILED

\* re.search scans from the left and returns the first match;
\* job_id = match.group(1) if match else "Failed"
RECURSIVE SearchFrom(_, _)
SearchFrom(s, i) ==
    IF i > Len(s)
    THEN FAILED
    ELSE IF MatchesAt(s, i) THEN GroupAt(s, i) ELSE SearchFrom(s, i + 1)

JobId(s) ==
    SearchFrom(s, 1)

\* ------------------------------------------------------------------------
\* Inputs of the model
\* ------------------------------------------------------------------------

\* Override tokens: a plain task override; task overrides with brackets,
\* with and without a backslash; one with a dollar sign; two script
\* overrides; launch overrides of both prefixes; an additive key that only
\* begins like a launch key; a task override whose value holds "+launch"; a
\* token with a backslash and no "=".
tPlain == << "a", "=", "1" >>
tParen == << "b", "=", "(", "x", ")" >>
tBrace == << "c", "=", "\\", "(", "y", "}" >>
tDollar == << "d", "=", "$", "e" >>
tScript1 == LAUNCH_SCRIPT \o << "/", "s" >>
tScript2 == LAUNCH_SCRIPT \o << "/", "t" >>
tLaunchDot == LAUNCH_DOT \o << "q", "=", "v" >>
tLaunchSlash == LAUNCH_SLASH \o << "p", "=", "{", "w", ")" >>
tLauncher == LAUNCH \o << "e", "r", "=", "1" >>
tValue == << "e", "=" >> \o LAUNCH
tNoEq == << "z", "\\" >>

Tokens ==
    { tPlain, tParen, tBrace, tDollar, tScript1, tScript2, tLaunchDot,
      tLaunchSlash, tLauncher, tValue, tNoEq }

\* The sequences over S of length at most n
SeqsUpTo(S, n) ==
    UNION { [1..k -> S] : k \in 0..n }

\* The override sequences of the dispatch-loop specification
LoopRequests ==
    { << tPlain >>, << tScript1, tPlain >>, << tLaunchDot, tDollar >>,
      << tNoEq >> }

\* The batches of the dispatch-loop specification
LoopBatches ==
    SeqsUpTo(LoopRequests, MaxBatch)

\* The batches of the command-builder specification: one override sequence
BuildBatches ==
    { << r >> : r \in SeqsUpTo(Tokens, MaxLen) }

\* sys.argv[0]: a script file, or an executable of a bin directory
EntryPaths ==
    { << "/", "m", ".", "p", "y" >>, << "/", "b", "i", "n", "/", "m" >> }

\* initial_job_idx
InitialJobIdxs == { 0, 5 }

\* What the scheduler prints when it exits zero
Stdouts ==
    { WITH_ID \o << "1", "2", ".", "\n" >>,
      << "q", "u", "e", "u", "e", "d", "\n" >>,
      WITH_ID \o << "7", "x", " " >> \o WITH_ID \o << "8", "." >>,
      WITH_ID \o << "3", ".", " " >> \o WITH_ID \o << "4", "." >>,
      WITH_ID \o << "." >> }

\* ------------------------------------------------------------------------
\* State
\* ------------------------------------------------------------------------

VARIABLES
    argv0,            \* sys.argv[0]
    job_overrides,    \* the caller's batch: the request objects, as they are now
    entry_overrides,  \* the value of the batch when launch was called
    initial_job_idx,  \* the argument of launch
    call,             \* which launch call on this batch is running
    pc,               \* the position in launch
    idx,              \* the loop variable of enumerate
    locals,           \* job_name, job_script, overrides_list, ... of this run
    stdout,           \* output.stdout of this run
    sweep_config,     \* the resolved configuration of this run
    hydra_cfg,        \* HydraConfig.instance().cfg, the process-wide registry
    orig_hydra_cfg,   \* the local orig_hydra_cfg of the materializer
    results,          \* the list results
    returned,         \* what the caller got from launch
    error,            \* the exception that left launch
    schedLog,         \* the scheduler invocations of this call
    resolveLog,       \* the load_sweep_config calls of this call
    matLog,           \* the configurations materialized in this call
    history           \* the scheduler commands of the earlier calls

vars ==
    << argv0, job_overrides, entry_overrides, initial_job_idx, call, pc, idx,
       locals, stdout, sweep_config, hydra_cfg, orig_hydra_cfg, results,
       returned, error, schedLog, resolveLog, matLog, history >>

NoLocals ==
    [ built |-> FALSE, entry_request |-> << >>, job_name |-> << "", 0 >>,
      script_selected |-> << >>, job_script |-> << >>,
      sanitizer_input |-> << >>, overrides_list |-> << >>,
      launch_command_overrides |-> << >>,
      launch_command |-> LaunchCommand(<< "", 0 >>, << >>, << >>) ]

NoConfig ==
    [ loaded |-> FALSE, overrides |-> << >>, id |-> << >>, num |-> -1,
      output_dir |-> << << >>, -1 >> ]

NoError ==
    [ type |-> "none", at |-> "none" ]

NotReturned ==
    [ given |-> FALSE, results |-> << >> ]

InitWith(batches, initials) ==
    /\ argv0 \in EntryPaths
    /\ job_overrides \in batches
    /\ entry_overrides = job_overrides
    /\ initial_job_idx \in initials
    /\ call = 1
    /\ pc = "loop"
    /\ idx = 0
    /\ locals = NoLocals
    /\ stdout = << >>
    /\ sweep_config = NoConfig
    /\ hydra_cfg = [ cfg |-> NoConfig, set_by |-> "caller" ]
    /\ orig_hydra_cfg = hydra_cfg
    /\ results = << >>
    /\ returned = NotReturned
    /\ error = NoError
    /\ schedLog = << >>
    /\ resolveLog = << >>
    /\ matLog = << >>
    /\ history = << >>

Init ==
    InitWith(LoopBatches, InitialJobIdxs)

InitBuild ==
    InitWith(BuildBatches, { 0 })

\* The request object of run i (i counts from 0, as enumerate does)
Request(i) ==
    job_overrides[i + 1]

\* launch raises: the exception leaves the loop, results is dropped
Raise(type) ==
    /\ pc' = "raised"
    /\ error' = [ type |-> type, at |-> pc ]

\* ------------------------------------------------------------------------
\* launch (lines 78-205), one action per step of the loop body
\* ------------------------------------------------------------------------

\* The for statement takes the next request (line 85)
ForNext ==
    /\ pc = "loop"
    /\ idx < Len(job_overrides)
    /\ pc' = "build"
    /\ UNCHANGED << orig_hydra_cfg, argv0, job_overrides, entry_overrides,
                    initial_job_idx,
                    call, idx, locals, stdout, sweep_config, hydra_cfg,
                    results, returned, error, schedLog, resolveLog, matLog,
                    history >>

\* Lines 86-172: the job name, the script (which pops the script override
\* from the request object), the sanitizer and the command.  A token that
\* has to be split and holds no "=" raises ValueError after the pop.
BuildCommand ==
    /\ pc = "build"
    /\ LET entry_request == Request(idx)
           job_name == JobName(initial_job_idx, idx)
           script_selected == SelectScript(argv0, entry_request)
           job_override == ConsumeScriptOverride(entry_request)
           job_script == PackageScript(script_selected)
           sanitized == Sanitize(job_override)
       IN  /\ job_overrides' = [ job_overrides EXCEPT ![idx + 1] = job_override ]
           /\ \/ /\ SanitizeRaises(job_override)
                 /\ Raise("ValueError")
                 /\ UNCHANGED locals
              \/ /\ ~SanitizeRaises(job_override)
                 /\ locals' =
                        [ built |-> TRUE,
                          entry_request |-> entry_request,
                          job_name |-> job_name,
                          script_selected |-> script_selected,
                          job_script |-> job_script,
                          sanitizer_input |-> job_override,
                          overrides_list |-> sanitized.overrides_list,
                          launch_command_overrides |->
                              sanitized.launch_command_overrides,
                          launch_command |->
                              LaunchCommand(job_name, job_script,
                                            sanitized.overrides_list) ]
                 /\ pc' = "submit"
                 /\ UNCHANGED error
    /\ UNCHANGED << orig_hydra_cfg, argv0, entry_overrides, initial_job_idx, call, idx, stdout,
                    sweep_config, hydra_cfg, results, returned, schedLog,
                    resolveLog, matLog, history >>

\* subprocess.run without check: a mutation of SubprocessCheck.
SubprocessNoCheck ==
    FALSE

\* check=True of subprocess.run (line 179)
SubprocessCheck ==
    TRUE

\* The run goes on to the resolver with no scheduler invocation made: a
\* mutation of Submit.
SubmitSkipped ==
    /\ pc = "submit"
    /\ \E out \in Stdouts : stdout' = out
    /\ pc' = "resolve"
    /\ UNCHANGED << orig_hydra_cfg, argv0, job_overrides, entry_overrides,
                    initial_job_idx,
                    call, idx, locals, sweep_config, hydra_cfg, results,
                    returned, error, schedLog, resolveLog, matLog, history >>

\* Lines 175-180: the scheduler runs the command.  It exits non-zero, and
\* check=True raises CalledProcessError, or it exits zero and prints.
Submit ==
    /\ pc = "submit"
    /\ \/ /\ schedLog' = Append(schedLog,
                 [ idx |-> idx, command |-> locals.launch_command,
                   ok |-> FALSE ])
          /\ IF SubprocessCheck
             THEN Raise("CalledProcessError") /\ UNCHANGED stdout
             ELSE /\ \E out \in Stdouts : stdout' = out
                  /\ pc' = "resolve"
                  /\ UNCHANGED error
       \/ /\ schedLog' = Append(schedLog,
                 [ idx |-> idx, command |-> locals.launch_command,
                   ok |-> TRUE ])
          /\ \E out \in Stdouts : stdout' = out
          /\ pc' = "resolve"
          /\ UNCHANGED error
    /\ UNCHANGED << orig_hydra_cfg, argv0, job_overrides, entry_overrides,
                    initial_job_idx,
                    call, idx, locals, sweep_config, hydra_cfg, results,
                    returned, resolveLog, matLog, history >>

\* Lines 183-186: load_sweep_config(self.config, list(job_override)) gets a
\* copy of the request as it is now, and returns the configuration or raises.
Resolve ==
    /\ pc = "resolve"
    /\ resolveLog' = Append(resolveLog,
           [ idx |-> idx, overrides |-> Request(idx) ])
    /\ \/ /\ Raise("ConfigResolverError")
          /\ UNCHANGED sweep_config
       \/ /\ sweep_config' =
                 [ NoConfig EXCEPT !.loaded = TRUE,
                                   !.overrides = Request(idx) ]
          /\ pc' = "stamp"
          /\ UNCHANGED error
    /\ UNCHANGED << orig_hydra_cfg, argv0, job_overrides, entry_overrides,
                    initial_job_idx,
                    call, idx, locals, stdout, hydra_cfg, results, returned,
                    schedLog, matLog, history >>

\* sweep_config.hydra.job.num = idx (line 192)
RunIndex(initial, i) ==
    i

\* Lines 187-193: the job id and the run index are set on the
\* configuration, which becomes the current configuration of the registry.
Stamp ==
    /\ pc = "stamp"
    /\ sweep_config' =
           [ sweep_config EXCEPT !.id = JobId(stdout),
                                 !.num = RunIndex(initial_job_idx, idx) ]
    /\ hydra_cfg' = [ cfg |-> sweep_config', set_by |-> "launch" ]
    /\ pc' = "materialize"
    /\ UNCHANGED << orig_hydra_cfg, argv0, job_overrides, entry_overrides,
                    initial_job_idx,
                    call, idx, locals, stdout, results, returned, error,
                    schedLog, resolveLog, matLog, history >>

\* How a call of handle_output_dir_and_save_configs ends: computing or
\* stamping the output directory raises (lines 64-73), creating the
\* directory or saving an artifact raises (lines 80-88), or it returns
HandlerExits ==
    { "output_dir_raises", "save_raises", "returns" }

\* handle_output_dir_and_save_configs (src/launcher.py, lines 45-90): the
\* registry, the configuration and the exception at the end of a call made
\* with `config` while the registry holds `registry`.  set_config stores a
\* copy of the configuration, so stamping the configuration later does not
\* change what the registry holds.  The output directory is the sweep
\* directory and subdirectory resolved against the job id and the run
\* index.
\*   line 59     orig_hydra_cfg is the registry on entry
\*   line 62     the registry is set to config
\*   lines 64-73 the output directory is computed and stamped; an exception
\*               here is outside the try, and the registry keeps config
\*   line 76     the registry is set to the stamped config
\*   lines 78-90 the directory is created and the artifacts are saved; the
\*               finally clause puts orig_hydra_cfg back, exception or not
HandleOutputDirAndSaveConfigs(config, registry, exit) ==
    LET orig == registry
        stamped == [ config EXCEPT !.output_dir = << config.id, config.num >> ]
    IN  CASE exit = "output_dir_raises" ->
                 [ hydra_cfg |-> [ cfg |-> config, set_by |-> "handler" ],
                   config |-> config, raised |-> "OutputDirError" ]
          [] exit = "save_raises" ->
                 [ hydra_cfg |-> orig, config |-> stamped,
                   raised |-> "SaveError" ]
          [] exit = "returns" ->
                 [ hydra_cfg |-> orig, config |-> stamped,
                   raised |-> "none" ]

\* Line 195: launch calls handle_output_dir_and_save_configs(sweep_config);
\* an exception of it leaves launch.
Materialize ==
    /\ pc = "materialize"
    /\ orig_hydra_cfg' = hydra_cfg
    /\ \/ LET h == HandleOutputDirAndSaveConfigs(sweep_config, hydra_cfg,
                                                 "output_dir_raises")
          IN  /\ hydra_cfg' = h.hydra_cfg
              /\ sweep_config' = h.config
              /\ Raise(h.raised)
              /\ UNCHANGED matLog
       \/ LET h == HandleOutputDirAndSaveConfigs(sweep_config, hydra_cfg,
                                                 "save_raises")
          IN  /\ hydra_cfg' = h.hydra_cfg
              /\ sweep_config' = h.config
              /\ Raise(h.raised)
              /\ UNCHANGED matLog
       \/ LET h == HandleOutputDirAndSaveConfigs(sweep_config, hydra_cfg,
                                                 "returns")
          IN  /\ hydra_cfg' = h.hydra_cfg
              /\ sweep_config' = h.config
              /\ matLog' = Append(matLog, [ idx |-> idx, cfg |-> h.config ])
              /\ pc' = "append"
              /\ UNCHANGED error
    /\ UNCHANGED << argv0, job_overrides, entry_overrides, initial_job_idx,
                    call, idx, locals, stdout, results, returned, schedLog,
                    resolveLog, history >>

\* The loop variable that skips a request: a mutation of NextIdx.
NextIdxSkip(i) ==
    i + 2

\* enumerate: the index of the next request (line 85)
NextIdx(i) ==
    i + 1

\* Lines 197-203: the JobReturn of the run.  Its overrides field is the
\* request object itself, here the index of the request in the batch.
AppendResult ==
    /\ pc = "append"
    /\ results' = Append(results,
           [ overrides |-> idx, status |-> "COMPLETED", cfg |-> sweep_config ])
    /\ idx' = NextIdx(idx)
    /\ stdout' = << >>
    /\ pc' = "loop"
    /\ UNCHANGED << orig_hydra_cfg, argv0, job_overrides, entry_overrides,
                    initial_job_idx,
                    call, locals, sweep_config, hydra_cfg, returned, error,
                    schedLog, resolveLog, matLog, history >>

\* return results (line 205)
Return ==
    /\ pc = "loop"
    /\ idx >= Len(job_overrides)
    /\ returned' = [ given |-> TRUE, results |-> results ]
    /\ pc' = "returned"
    /\ UNCHANGED << orig_hydra_cfg, argv0, job_overrides, entry_overrides,
                    initial_job_idx,
                    call, idx, locals, stdout, sweep_config, hydra_cfg,
                    results, error, schedLog, resolveLog, matLog, history >>

\* The caller calls launch again with the same batch objects and the same
\* initial_job_idx, after a call that returned (an exception ends the sweep).
Relaunch ==
    /\ pc = "returned"
    /\ call < MaxCalls
    /\ call' = call + 1
    /\ history' = Append(history,
           [ i \in 1..Len(schedLog) |-> schedLog[i].command ])
    /\ entry_overrides' = job_overrides
    /\ pc' = "loop"
    /\ idx' = 0
    /\ locals' = NoLocals
    /\ stdout' = << >>
    /\ sweep_config' = NoConfig
    /\ results' = << >>
    /\ returned' = NotReturned
    /\ schedLog' = << >>
    /\ resolveLog' = << >>
    /\ matLog' = << >>
    /\ UNCHANGED << orig_hydra_cfg, argv0, job_overrides, initial_job_idx,
                    hydra_cfg, error >>

Next ==
    \/ ForNext
    \/ BuildCommand
    \/ Submit
    \/ Resolve
    \/ Stamp
    \/ Materialize
    \/ AppendResult
    \/ Return
    \/ Relaunch

\* The dispatch loop on batches of small requests
Spec ==
    Init /\ [][Next]_vars

\* The command builder on single requests of every token combination
SpecBuild ==
    InitBuild /\ [][Next]_vars

\* ------------------------------------------------------------------------
\* handle_output_dir_and_save_configs called on its own
\* ------------------------------------------------------------------------

\* The configurations the handler is called with: composed for a request,
\* stamped with a job id and a run index, the output directory not yet set
HandlerConfigs ==
    { [ loaded |-> TRUE, overrides |-> r, id |-> JobId(out), num |-> n,
        output_dir |-> NoConfig.output_dir ] :
          r \in LoopRequests, out \in Stdouts, n \in 0..(MaxBatch - 1) }

\* What the registry holds when the handler is called: nothing yet, or a
\* configuration some caller has set
HandlerRegistries ==
    { [ cfg |-> c, set_by |-> "caller" ] : c \in HandlerConfigs \cup { NoConfig } }

InitHandler ==
    /\ argv0 = << "/", "w", "/", "m", ".", "p", "y" >>
    /\ job_overrides = << >>
    /\ entry_overrides = << >>
    /\ initial_job_idx = 0
    /\ call = 1
    /\ pc = "handler"
    /\ idx = 0
    /\ locals = NoLocals
    /\ stdout = << >>
    /\ sweep_config \in HandlerConfigs
    /\ hydra_cfg \in HandlerRegistries
    /\ orig_hydra_cfg = hydra_cfg
    /\ results = << >>
    /\ returned = NotReturned
    /\ error = NoError
    /\ schedLog = << >>
    /\ resolveLog = << >>
    /\ matLog = << >>
    /\ history = << >>

\* Lines 45-90 of src/launcher.py: one call of the handler with the
\* configuration sweep_config, ending in any of its exits
HandlerCall ==
    /\ pc = "handler"
    /\ orig_hydra_cfg' = hydra_cfg
    /\ \E exit \in HandlerExits :
           LET h == HandleOutputDirAndSaveConfigs(sweep_config, hydra_cfg, exit)
           IN  /\ hydra_cfg' = h.hydra_cfg
               /\ sweep_config' = h.config
               /\ IF h.raised = "none"
                  THEN /\ pc' = "handler_returned"
                       /\ UNCHANGED error
                  ELSE /\ pc' = "handler_raised"
                       /\ error' = [ type |-> h.raised, at |-> pc ]
    /\ UNCHANGED << argv0, job_overrides, entry_overrides, initial_job_idx,
                    call, idx, locals, stdout, results, returned, schedLog,
                    resolveLog, matLog, history >>

NextHandler ==
    HandlerCall

\* The handler on every configuration and every registry content
SpecHandler ==
    InitHandler /\ [][NextHandler]_vars

\* ------------------------------------------------------------------------
\* Vocabulary of the claims
\* ------------------------------------------------------------------------

\* The number of requests of the batch
BatchSize ==
    Len(job_overrides)

\* s begins with prefix
HasPrefix(s, prefix) ==
    Len(s) >= Len(prefix) /\ SubSeq(s, 1, Len(prefix)) = prefix

\* A launch override: its key is prefixed "+launch." or "+launch/"
IsLaunchOverride(token) ==
    HasPrefix(token, LAUNCH_DOT) \/ HasPrefix(token, LAUNCH_SLASH)

\* A script override: a token that holds "+launch.script="
IsScriptOverride(token) ==
    Contains(token, LAUNCH_SCRIPT)

\* The command of a run has just been built: locals holds the sanitizer's
\* input and output of that run
JustBuilt ==
    pc = "submit" /\ locals.built

\* The scheduler invocation of this call that exited non-zero, if any
FailedInvocations ==
    { j \in 1..Len(schedLog) : ~schedLog[j].ok }

\* ------------------------------------------------------------------------
\* C1
\* ------------------------------------------------------------------------

\* C1: when the scheduler invocation of run k exits non-zero, launch is left
\* by CalledProcessError and returns nothing; that invocation is the last
\* one (no retry, no invocation for a later run); no configuration was
\* resolved or materialized for run k or a later run, and results holds no
\* entry for run k or a later run.
C1_FailFast ==
    \A j \in FailedInvocations :
        LET k == schedLog[j].idx
        IN  /\ pc = "raised"
            /\ error = [ type |-> "CalledProcessError", at |-> "submit" ]
            /\ ~returned.given
            /\ j = Len(schedLog)
            /\ \A i \in 1..(j - 1) : schedLog[i].idx < k
            /\ \A r \in 1..Len(resolveLog) : resolveLog[r].idx < k
            /\ \A m \in 1..Len(matLog) : matLog[m].idx < k
            /\ \A r \in 1..Len(results) : results[r].overrides < k
            /\ sweep_config.num < k

\* C1 witness: the scheduler failed on the second run of a batch, after the
\* first run was submitted, resolved, materialized and recorded.
C1_Witness ==
    /\ pc = "raised"
    /\ Len(schedLog) = 2
    /\ schedLog[1].ok
    /\ ~schedLog[2].ok
    /\ schedLog[2].idx = 1
    /\ Len(results) = 1

\* ------------------------------------------------------------------------
\* C2
\* ------------------------------------------------------------------------

IdOccursAt(s, i, d) ==
    /\ Len(d) > 0
    /\ \A p \in 1..Len(d) : d[p] \in Digits
    /\ i + Len(WITH_ID) + Len(d) <= Len(s)
    /\ SubSeq(s, i, i + Len(WITH_ID) + Len(d)) = WITH_ID \o d \o << "." >>

\* The digit runs that could follow position i of s
RunsAt(s, i) ==
    { SubSeq(s, i + Len(WITH_ID), e) : e \in (i + Len(WITH_ID))..Len(s) }

\* d is the digit run of the first occurrence of "with ID <digits>." in s
IsFirstId(s, d) ==
    \E i \in 1..Len(s) :
        /\ IdOccursAt(s, i, d)
        /\ \A j \in 1..(i - 1) : \A d2 \in RunsAt(s, j) : ~IdOccursAt(s, j, d2)

\* s holds no occurrence of "with ID <digits>."
HasNoId(s) ==
    \A i \in 1..Len(s) : \A d \in RunsAt(s, i) : ~IdOccursAt(s, i, d)

\* C3: once the job id of a run is stamped, it is the digit run of the first
\* occurrence of "with ID <digits>." in the stdout of the run, and it is
\* "Failed" exactly when stdout has no occurrence; the stamping step raises
\* nothing; and every recorded run, whatever its job id, has status
\* COMPLETED and the configuration that was resolved and materialized for it.
C3_JobIdOrSentinel ==
    /\ pc \in { "materialize", "append" } =>
           /\ (sweep_config.id = FAILED <=> HasNoId(stdout))
           /\ (sweep_config.id # FAILED => IsFirstId(stdout, sweep_config.id))
    /\ pc = "raised" => error.at # "stamp"
    /\ Len(matLog) >= Len(results)
    /\ \A j \in 1..Len(results) :
           /\ results[j].status = "COMPLETED"
           /\ results[j].cfg.loaded
           /\ matLog[j].idx = j - 1
           /\ matLog[j].cfg = results[j].cfg
           /\ resolveLog[j].idx = j - 1

\* C3 witness: the first run of a batch got the sentinel, was materialized
\* and recorded as COMPLETED, and the second run has been submitted.
C3_Witness ==
    /\ Len(results) >= 1
    /\ results[1].cfg.id = FAILED
    /\ results[1].status = "COMPLETED"
    /\ matLog[1].cfg.id = FAILED
    /\ Len(schedLog) = 2
    /\ schedLog[2].idx = 1
    /\ pc = "materialize"
    /\ sweep_config.id = << "3" >>

\* ------------------------------------------------------------------------
\* C4
\* ------------------------------------------------------------------------

\* C4: no override list that launch passes to the config resolver holds a
\* launch override (a token prefixed "+launch." or "+launch/").
C4_ResolverGetsTaskOverridesOnly ==
    \A r \in 1..Len(resolveLog) :
        \A i \in 1..Len(resolveLog[r].overrides) :
            ~IsLaunchOverride(resolveLog[r].overrides[i])

\* ------------------------------------------------------------------------
\* C5
\* ------------------------------------------------------------------------

\* The values of the script overrides of a request
ScriptValues(request) ==
    { SplitOnce(request[i], EQ)[2] :
          i \in { n \in 1..Len(request) : IsScriptOverride(request[n]) } }

\* "script=", what is left of the key of a script override once the launch
\* prefix is stripped
SCRIPT_KEY == << "s", "c", "r", "i", "p", "t", "=" >>

\* C5: for a request that holds one or more script overrides, the script of
\* the built command is the value of a script override, and no script
\* override reaches the sanitizer: none is in its input, and no token of the
\* task-override list or of the launch-override accumulator carries the
\* script key.
C5_ScriptOverrideConsumed ==
    (locals.built /\ ScriptValues(locals.entry_request) # { }) =>
        /\ locals.launch_command.job_script
               \in ScriptValues(locals.entry_request)
        /\ \A i \in 1..Len(locals.sanitizer_input) :
               ~IsScriptOverride(locals.sanitizer_input[i])
        /\ \A i \in 1..Len(locals.overrides_list) :
               ~HasPrefix(locals.overrides_list[i], SCRIPT_KEY)
        /\ \A i \in 1..Len(locals.launch_command_overrides) :
               ~HasPrefix(locals.launch_command_overrides[i], SCRIPT_KEY)

\* ------------------------------------------------------------------------
\* C6
\* ------------------------------------------------------------------------

\* C6: when launch has returned or raised, every override sequence of the
\* batch holds the tokens it held when launch was called.
C6_RequestsNotMutated ==
    pc \in { "returned", "raised" } => job_overrides = entry_overrides

\* ------------------------------------------------------------------------
\* C7
\* ------------------------------------------------------------------------

\* C7: the command built for a request in this call is the command built
\* for the same request object in every earlier call (same settings, same
\* entry path, same initial_job_idx).
C7_BuildIsRepeatable ==
    \A c \in 1..Len(history) :
        \A j \in 1..Len(schedLog) :
            j <= Len(history[c]) => schedLog[j].command = history[c][j]

\* ------------------------------------------------------------------------
\* C8
\* ------------------------------------------------------------------------

\* The tokens of a request that are launch overrides, in order
RECURSIVE LaunchOverridesOf(_)
LaunchOverridesOf(request) ==
    IF Len(request) = 0
    THEN << >>
    ELSE (IF IsLaunchOverride(Head(request)) THEN << Head(request) >>
          ELSE << >>)
         \o LaunchOverridesOf(Tail(request))

\* The tokens of a request that are no launch overrides, in order
RECURSIVE TaskOverridesOf(_)
TaskOverridesOf(request) ==
    IF Len(request) = 0
    THEN << >>
    ELSE (IF IsLaunchOverride(Head(request)) THEN << >>
          ELSE << Head(request) >>)
         \o TaskOverridesOf(Tail(request))

\* The key of a token: what stands before its first "="
KeyOf(token) ==
    SplitOnce(token, EQ)[1]

\* The key of a launch override without its prefix
StrippedKeyOf(token) ==
    SubSeq(KeyOf(token), Len(LAUNCH_DOT) + 1, Len(KeyOf(token)))

\* C8: the sanitized list is the task overrides of the sanitized sequence
\* in order, followed, exactly when the sequence has a launch override, by
\* "--" and the launch overrides in order under their stripped keys.
C8_SeparatorIffLaunchOverride ==
    locals.built =>
        LET T == TaskOverridesOf(locals.sanitizer_input)
            L == LaunchOverridesOf(locals.sanitizer_input)
            out == locals.overrides_list
        IN  /\ Len(out) = Len(T) + (IF Len(L) > 0 THEN 1 + Len(L) ELSE 0)
            /\ \A k \in 1..Len(T) :
                   /\ out[k] # DASHDASH
                   /\ KeyOf(out[k]) = KeyOf(T[k])
            /\ Len(L) > 0 => out[Len(T) + 1] = DASHDASH
            /\ \A k \in 1..Len(L) :
                   KeyOf(out[Len(T) + 1 + k]) = StrippedKeyOf(L[k])

\* ------------------------------------------------------------------------
\* C9
\* ------------------------------------------------------------------------

Brackets == { "(", ")", "{", "}" }

\* s with a backslash put before each bracket and nothing else changed
RECURSIVE WithBracketsEscaped(_)
WithBracketsEscaped(s) ==
    IF Len(s) = 0
    THEN << >>
    ELSE (IF Head(s) \in Brackets THEN << "\\", Head(s) >> ELSE << Head(s) >>)
         \o WithBracketsEscaped(Tail(s))

\* s without its backslashes
RECURSIVE WithoutBackslashes(_)
WithoutBackslashes(s) ==
    IF Len(s) = 0
    THEN << >>
    ELSE (IF Head(s) = "\\" THEN << >> ELSE << Head(s) >>)
         \o WithoutBackslashes(Tail(s))

\* How many characters of s are in set S
RECURSIVE CountIn(_, _)
CountIn(s, S) ==
    IF Len(s) = 0
    THEN 0
    ELSE (IF Head(s) \in S THEN 1 ELSE 0) + CountIn(Tail(s), S)

\* The positions of the sanitizer's input whose token goes to the task list
TaskPositions ==
    { i \in 1..Len(locals.sanitizer_input) :
          SanitizeOverride(locals.sanitizer_input[i]).route = "task" }

\* The token of the task-override list that comes from position i
OutputOf(i) ==
    locals.overrides_list[Cardinality({ j \in TaskPositions : j <= i })]

\* C9 as stated: the output token of every task override key=value whose
\* value holds a bracket is the token with a backslash before each bracket
\* of the value, and nothing else altered.
C9_BracketsAlwaysEscaped ==
    JustBuilt =>
        \A i \in TaskPositions :
            LET token == locals.sanitizer_input[i]
                parts == SplitOnce(token, EQ)
            IN  (Len(parts) = 2 /\ CountIn(parts[2], Brackets) > 0) =>
                    OutputOf(i) = parts[1] \o EQ \o WithBracketsEscaped(parts[2])

\* v is the escaped form of value: each bracket has a backslash before it,
\* each dollar sign four, and v holds no other backslash and differs from
\* value in backslashes only
IsEscapedForm(v, value) ==
    /\ WithoutBackslashes(v) = WithoutBackslashes(value)
    /\ \A p \in 1..Len(v) :
           v[p] \in Brackets => (p > 1 /\ v[p - 1] = "\\")
    /\ \A p \in 1..Len(v) :
           v[p] = "$" => (p > 4 /\ \A q \in (p - 4)..(p - 1) : v[q] = "\\")
    /\ CountIn(v, { "\\" }) = CountIn(v, Brackets) + 4 * CountIn(v, { "$" })

\* C9 amended: a task override that holds none of backslash, "$" and
\* "+launch" is passed through unchanged, brackets included; the output
\* token of any other task override key=value is key=\"v\", where v is the
\* value with its own backslashes removed, a backslash before each bracket
\* and four backslashes before each dollar sign.
C9_EscapingOnTheQuotingPath ==
    JustBuilt =>
        \A i \in TaskPositions :
            LET token == locals.sanitizer_input[i]
                parts == SplitOnce(token, EQ)
                out == OutputOf(i)
                head == parts[1] \o EQ \o ESCQUOTE
            IN  IF \/ Contains(token, BSLASH)
                   \/ Contains(token, DOLLAR)
                   \/ Contains(token, LAUNCH)
                THEN /\ Len(parts) = 2
                     /\ HasPrefix(out, head)
                     /\ Len(out) >= Len(head) + Len(ESCQUOTE)
                     /\ SubSeq(out, Len(out) - 1, Len(out)) = ESCQUOTE
                     /\ IsEscapedForm(
                            SubSeq(out, Len(head) + 1, Len(out) - 2), parts[2])
                ELSE out = token

\* C9 witness: a task override with a backslash and brackets in its value
\* was sanitized, next to one with brackets and no backslash.
C9_Witness ==
    /\ JustBuilt
    /\ locals.sanitizer_input = << tBrace, tParen >>
    /\ locals.overrides_list[2] = tParen
    /\ locals.overrides_list[1]
           = << "c", "=", "\\", "\"", "\\", "(", "y", "\\", "}", "\\", "\"" >>

\* ------------------------------------------------------------------------
\* C10
\* ------------------------------------------------------------------------

\* C10: the job name of the command of run idx is <task function name>_n
\* with n = initial_job_idx + idx; the run index stamped on the resolved
\* configuration of run idx is idx; both increase strictly along the runs
\* of a batch.
C10_JobNameAndRunIndex ==
    /\ \A j \in 1..Len(schedLog) :
           schedLog[j].command.job_name
               = << "train_model", initial_job_idx + schedLog[j].idx >>
    /\ \A i, j \in 1..Len(schedLog) :
           i < j => schedLog[i].command.job_name[2]
                        < schedLog[j].command.job_name[2]
    /\ pc \in { "materialize", "append" } => sweep_config.num = idx
    /\ \A j \in 1..Len(matLog) : matLog[j].cfg.num = matLog[j].idx
    /\ \A j \in 1..Len(results) : results[j].cfg.num = j - 1
    /\ \A i, j \in 1..Len(results) :
           i < j => results[i].cfg.num < results[j].cfg.num

\* C10 witness: both runs of a batch launched with initial_job_idx = 5 were
\* recorded: the jobs are named _5 and _6, the run indices are 0 and 1.
C10_Witness ==
    /\ initial_job_idx = 5
    /\ Len(results) = 2
    /\ schedLog[1].command.job_name = << "train_model", 5 >>
    /\ schedLog[2].command.job_name = << "train_model", 6 >>
    /\ results[1].cfg.num = 0
    /\ results[2].cfg.num = 1

\* ------------------------------------------------------------------------
\* C11
\* ------------------------------------------------------------------------

\* The scheduler was invoked for run i of this call and exited zero
Submitted(i) ==
    \E j \in 1..Len(schedLog) : schedLog[j].idx = i /\ schedLog[j].ok

\* launch was left by an exception of the config resolver or of the
\* materializer
CollaboratorFailed ==
    /\ pc = "raised"
    /\ error.type \in { "ConfigResolverError", "OutputDirError", "SaveError" }

\* C11: a run whose configuration is being resolved, stamped, materialized
\* or recorded has been submitted to the scheduler before; and when the
\* resolver or the materializer fails in run k, the scheduler has been
\* invoked k + 1 times, each time with exit zero, launch raises and the
\* caller gets no result, although k results were built.
C11_SubmittedBeforeRecorded ==
    /\ pc \in { "resolve", "stamp", "materialize", "append" } => Submitted(idx)
    /\ \A r \in 1..Len(resolveLog) : Submitted(resolveLog[r].idx)
    /\ \A m \in 1..Len(matLog) : Submitted(matLog[m].idx)
    /\ \A r \in 1..Len(results) : Submitted(results[r].overrides)
    /\ CollaboratorFailed =>
           /\ Len(schedLog) = idx + 1
           /\ \A j \in 1..Len(schedLog) : schedLog[j].ok /\ schedLog[j].idx = j - 1
           /\ Len(results) = idx
           /\ ~returned.given
           /\ returned.results = << >>

\* C11 witness: the resolver failed in the second run of a batch: two jobs
\* were submitted, one result was built, the caller got nothing.
C11_Witness ==
    /\ pc = "raised"
    /\ error = [ type |-> "ConfigResolverError", at |-> "resolve" ]
    /\ idx = 1
    /\ Len(schedLog) = 2
    /\ schedLog[2].ok
    /\ Len(results) = 1
    /\ ~returned.given

\* ------------------------------------------------------------------------
\* C12: on every exit path, handle_output_dir_and_save_configs puts the
\* registry back to the value it held on entry; so after each run of launch
\* the registry holds the configuration launch set for that run just before
\* materialization.
\* ------------------------------------------------------------------------

\* The handler has just been left, by return or by exception
HandlerLeft ==
    \/ pc \in { "handler_returned", "handler_raised" }
    \/ pc = "append"
    \/ pc = "raised" /\ error.at = "materialize"

\* C12: whenever the handler has been left, by return or by any exception,
\* the registry holds the configuration it held when the handler was
\* entered (compared by content, not by object); and in launch, once a run
\* is materialized, that configuration is the one launch set on line 193:
\* the run's configuration with its job id and run index, before the output
\* directory was stamped.
C12_RegistryRestoredOnEveryExit ==
    /\ HandlerLeft => hydra_cfg.cfg = orig_hydra_cfg.cfg
    /\ pc = "append" =>
           /\ hydra_cfg.set_by = "launch"
           /\ hydra_cfg.cfg =
                  [ sweep_config EXCEPT !.output_dir = NoConfig.output_dir ]

====
